---- MODULE Spec2Model ----
(***************************************************************************)
(* Model of src/main.py: the /predict-disaster request handler and the     *)
(* helpers it calls (get_weather_data, parse_weather_data,                 *)
(* generate_prediction_key, get_disaster_prediction).                      *)
(*                                                                         *)
(* Python values are tagged records:                                       *)
(*   None   [t |-> "None"]                                                 *)
(*   bool   [t |-> "bool", b |-> BOOLEAN]                                  *)
(*   number [t |-> "num", sp |-> "fin" | "nan" | "inf" | "-inf", n |-> Int]*)
(*          n is the value in hundredths (9000 is 90.0)                    *)
(*   str    [t |-> "str", s |-> sequence of one-character strings]         *)
(*   list   [t |-> "list", items |-> sequence of values]                   *)
(*   dict   [t |-> "dict", d |-> function from keys (character sequences)  *)
(*           to values]                                                    *)
(* The result of an evaluation that may raise is [exc, val]: exc is "none" *)
(* or the name of the exception class raised.                              *)
(***************************************************************************)
EXTENDS Integers, Sequences, FiniteSets, TLC

\* pc is the stage of predict_disaster the request is at; data .. response are
\* its locals; answer is what the provider answered to its GET; calls lists
\* the stages the request ran
VARIABLES pc, data, latitude, longitude, weather_data, weather_params,
          hash_key, disaster_prediction, response, answer, calls

vars == <<pc, data, latitude, longitude, weather_data, weather_params,
          hash_key, disaster_prediction, response, answer, calls>>

(* ------------------------------------------------------------------ *)
(* Python values                                                       *)
(* ------------------------------------------------------------------ *)

PyNone == [t |-> "None"]

PyBool(b) == [t |-> "bool", b |-> b]

Num(n) == [t |-> "num", sp |-> "fin", n |-> n]

NaN == [t |-> "num", sp |-> "nan", n |-> 0]

PosInf == [t |-> "num", sp |-> "inf", n |-> 0]

NegInf == [t |-> "num", sp |-> "-inf", n |-> 0]

PyStr(s) == [t |-> "str", s |-> s]

PyList(items) == [t |-> "list", items |-> items]

PyDict(d) == [t |-> "dict", d |-> d]

EmptyDict == PyDict(<<>>)

Ok(v) == [exc |-> "none", val |-> v]

Raise(e) == [exc |-> e, val |-> PyNone]

\* Python truthiness: bool(x)
Truthy(x) ==
    CASE x.t = "None" -> FALSE
      [] x.t = "bool" -> x.b
      [] x.t = "num"  -> ~(x.sp = "fin" /\ x.n = 0)
      [] x.t = "str"  -> x.s # <<>>
      [] x.t = "list" -> x.items # <<>>
      [] x.t = "dict" -> DOMAIN x.d # {}
      [] OTHER -> TRUE

\* needle occurs in hay as a contiguous run of characters
IsSubstring(needle, hay) ==
    \E i \in 1..(Len(hay) - Len(needle) + 1) :
        SubSeq(hay, i, i + Len(needle) - 1) = needle

\* Python "key in x" for a str key
PyContains(key, x) ==
    CASE x.t = "dict" -> Ok(PyBool(key \in DOMAIN x.d))
      [] x.t = "str"  -> Ok(PyBool(IsSubstring(key, x.s)))
      [] x.t = "list" -> Ok(PyBool(\E i \in DOMAIN x.items :
                                     /\ x.items[i].t = "str"
                                     /\ x.items[i].s = key))
      [] OTHER -> Raise("TypeError")

\* Python x[key] for a str key
PyIndexStr(x, key) ==
    CASE x.t = "dict" -> IF key \in DOMAIN x.d THEN Ok(x.d[key])
                         ELSE Raise("KeyError")
      [] OTHER -> Raise("TypeError")

\* Python x[0]
PyIndex0(x) ==
    CASE x.t = "list" -> IF x.items = <<>> THEN Raise("IndexError")
                         ELSE Ok(x.items[1])
      [] x.t = "str"  -> IF x.s = <<>> THEN Raise("IndexError")
                         ELSE Ok(PyStr(<<x.s[1]>>))
      [] x.t = "dict" -> Raise("KeyError")
      [] OTHER -> Raise("TypeError")

\* Python x.get(key, default): only dict has the method
PyGet(x, key, default) ==
    IF x.t = "dict"
    THEN Ok(IF key \in DOMAIN x.d THEN x.d[key] ELSE default)
    ELSE Raise("AttributeError")

(* ------------------------------------------------------------------ *)
(* float(x), lines 109-110                                             *)
(* ------------------------------------------------------------------ *)

Digits == <<"0", "1", "2", "3", "4", "5", "6", "7", "8", "9">>

IsDigit(c) == \E i \in DOMAIN Digits : Digits[i] = c

DigitVal(c) == (CHOOSE i \in DOMAIN Digits : Digits[i] = c) - 1

AllDigits(s) == \A i \in DOMAIN s : IsDigit(s[i])

RECURSIVE DecVal(_)
\* value of a sequence of decimal digits, most significant first
DecVal(s) ==
    IF s = <<>> THEN 0
    ELSE 10 * DecVal(SubSeq(s, 1, Len(s) - 1)) + DigitVal(s[Len(s)])

\* position of the first "." of s, or Len(s) + 1
DotPos(s) ==
    IF \E i \in DOMAIN s : s[i] = "."
    THEN CHOOSE i \in DOMAIN s : s[i] = "." /\ \A j \in 1..(i - 1) : s[j] # "."
    ELSE Len(s) + 1

IntPart(s) == SubSeq(s, 1, DotPos(s) - 1)

FracPart(s) == SubSeq(s, DotPos(s) + 1, Len(s))

\* digits [ "." digits ], at least one digit in all ("1.", ".5" are accepted)
IsDecimal(s) ==
    /\ AllDigits(IntPart(s))
    /\ AllDigits(FracPart(s))
    /\ Len(IntPart(s)) + Len(FracPart(s)) >= 1

\* value of a decimal literal in hundredths; the literals of the model carry at
\* most two fraction digits, so the value is exact
DecimalHundredths(s) ==
    LET f == FracPart(s)
        f2 == CASE Len(f) = 0 -> <<"0", "0">>
                [] Len(f) = 1 -> f \o <<"0">>
                [] OTHER -> SubSeq(f, 1, 2)
    IN  100 * DecVal(IntPart(s)) + DecVal(f2)

\* float(str): optional sign, then nan, inf or a decimal literal. Whitespace,
\* exponents, underscores and upper case, which Python also accepts, are not
\* used by the inputs of the model.
ParseFloat(s) ==
    LET signed == s # <<>> /\ s[1] \in {"+", "-"}
        neg == s # <<>> /\ s[1] = "-"
        body == IF signed THEN Tail(s) ELSE s
    IN  CASE body = <<"n", "a", "n">> -> Ok(NaN)
          [] body = <<"i", "n", "f">> -> Ok(IF neg THEN NegInf ELSE PosInf)
          [] IsDecimal(body) ->
                Ok(Num((IF neg THEN -1 ELSE 1) * DecimalHundredths(body)))
          [] OTHER -> Raise("ValueError")

\* float(x): ValueError for a str that is no number, TypeError for a value
\* that is neither a number nor a str
PyFloat(x) ==
    CASE x.t = "num"  -> Ok(x)
      [] x.t = "bool" -> Ok(Num(IF x.b THEN 100 ELSE 0))
      [] x.t = "str"  -> ParseFloat(x.s)
      [] OTHER -> Raise("TypeError")

\* degrees to hundredths of a degree
Deg(d) == 100 * d

\* Between with the bounds left out: lo < x < hi
BetweenExclusive(lo, x, hi) ==
    /\ x.sp = "fin"
    /\ Deg(lo) < x.n
    /\ x.n < Deg(hi)

\* lo <= x <= hi on floats: every comparison with nan is False
Between(lo, x, hi) ==
    /\ x.sp = "fin"
    /\ Deg(lo) <= x.n
    /\ x.n <= Deg(hi)

(* ------------------------------------------------------------------ *)
(* predict_disaster: input validation, lines 105-116                   *)
(* ------------------------------------------------------------------ *)

LATITUDE == <<"l", "a", "t", "i", "t", "u", "d", "e">>

LONGITUDE == <<"l", "o", "n", "g", "i", "t", "u", "d", "e">>

LAT_MIN == -90

LAT_MAX == 90

LON_MIN == -180

LON_MAX == 180

MSG_MISSING == "Missing required parameters: latitude and longitude"

MSG_FORMAT == "Invalid coordinates format. Latitude and longitude must be numeric."

MSG_RANGE == "Coordinates out of range. Latitude must be between -90 and 90, longitude between -180 and 180."

MSG_FETCH == "Failed to fetch weather data. Please try again later."

MSG_PROCESS == "Failed to process weather data. Please try again later."

DISCLAIMER == "This is a mock prediction for testing purposes only. Not for actual disaster response."

NoResponse == [status |-> 0, body |-> [pending |-> TRUE]]

\* jsonify({"error": msg}), status
ErrorResponse(status, msg) == [status |-> status, body |-> [error |-> msg]]

\* an exception that leaves predict_disaster: the framework answers 500 with
\* its own error page, not a JSON object built by the handler
UnhandledResponse(exc) == [status |-> 500, body |-> [unhandled |-> exc]]

\* line 105: not data or 'latitude' not in data or 'longitude' not in data,
\* evaluated left to right with short circuit
MissingParams(d) ==
    IF ~Truthy(d) THEN Ok(PyBool(TRUE))
    ELSE LET a == PyContains(LATITUDE, d)
         IN  IF a.exc # "none" THEN Raise(a.exc)
             ELSE IF ~a.val.b THEN Ok(PyBool(TRUE))
             ELSE LET b == PyContains(LONGITUDE, d)
                  IN  IF b.exc # "none" THEN Raise(b.exc)
                      ELSE Ok(PyBool(~b.val.b))

\* lines 109-110: the first exception raised, or the two floats
ParseCoordinates(d) ==
    LET a == PyIndexStr(d, LATITUDE)
    IN  IF a.exc # "none" THEN [exc |-> a.exc, lat |-> NaN, lon |-> NaN]
        ELSE LET fa == PyFloat(a.val)
             IN  IF fa.exc # "none" THEN [exc |-> fa.exc, lat |-> NaN, lon |-> NaN]
                 ELSE LET b == PyIndexStr(d, LONGITUDE)
                      IN  IF b.exc # "none"
                          THEN [exc |-> b.exc, lat |-> NaN, lon |-> NaN]
                          ELSE LET fb == PyFloat(b.val)
                               IN  IF fb.exc # "none"
                                   THEN [exc |-> fb.exc, lat |-> NaN, lon |-> NaN]
                                   ELSE [exc |-> "none", lat |-> fa.val, lon |-> fb.val]

\* line 111: the except clause catches ValueError only
CoordinateHandler(exc) == exc = "ValueError"

\* OutOfRange with the range check left out
OutOfRangeSkipped(lat, lon) == FALSE

\* line 115
OutOfRange(lat, lon) ==
    ~Between(LAT_MIN, lat, LAT_MAX) \/ ~Between(LON_MIN, lon, LON_MAX)


(* ------------------------------------------------------------------ *)
(* get_weather_data, lines 37-47                                       *)
(* ------------------------------------------------------------------ *)

\* requests.get raised before any response arrived
TransportErrors == {"ConnectionError", "Timeout"}

\* RaisesForStatus that takes only the 5xx statuses for errors
RaisesForServerError(status) == 500 <= status /\ status < 600

\* response.raise_for_status() raises HTTPError for a 4xx or 5xx status only
RaisesForStatus(status) == 400 <= status /\ status < 600

\* line 45: the except clause catches RequestException and its subclasses;
\* the JSONDecodeError of response.json() is one of them from requests 2.27
\* on and a plain ValueError before, which the flag newRequests tells apart
FetchHandler(exc, newRequests) ==
    \/ exc \in TransportErrors
    \/ exc = "HTTPError"
    \/ exc = "JSONDecodeError" /\ newRequests

\* the exception, if any, that the try block of lines 42-44 raises for the
\* provider's answer o = [kind, status, isJson, body]
FetchRaises(o) ==
    CASE o.kind \in TransportErrors -> o.kind
      [] RaisesForStatus(o.status) -> "HTTPError"
      [] ~o.isJson -> "JSONDecodeError"
      [] OTHER -> "none"

\* get_weather_data(lat, lon) for the provider's answer o: the payload, None
\* after a caught exception, or the exception that escapes
get_weather_data(o, newRequests) ==
    LET e == FetchRaises(o)
    IN  IF e = "none" THEN Ok(o.body)
        ELSE IF FetchHandler(e, newRequests) THEN Ok(PyNone)
        ELSE Raise(e)

(* ------------------------------------------------------------------ *)
(* parse_weather_data, lines 49-65                                     *)
(* ------------------------------------------------------------------ *)

K_main == <<"m", "a", "i", "n">>

K_wind == <<"w", "i", "n", "d">>

K_clouds == <<"c", "l", "o", "u", "d", "s">>

K_weather == <<"w", "e", "a", "t", "h", "e", "r">>

K_temp == <<"t", "e", "m", "p">>

K_humidity == <<"h", "u", "m", "i", "d", "i", "t", "y">>

K_pressure == <<"p", "r", "e", "s", "s", "u", "r", "e">>

K_speed == <<"s", "p", "e", "e", "d">>

K_all == <<"a", "l", "l">>

K_description == <<"d", "e", "s", "c", "r", "i", "p", "t", "i", "o", "n">>

UNKNOWN == <<"u", "n", "k", "n", "o", "w", "n">>

\* round to one decimal of a value in hundredths. A tie is exact only for
\* x.25 and x.75 (binary fractions), which round half to even; the other
\* hundredths ending in 5 are not used by the inputs of the model.
Round1(n) ==
    LET r == n % 10
        down == n - r
    IN  CASE r < 5 -> down
          [] r > 5 -> down + 10
          [] OTHER -> IF (down \div 10) % 2 = 0 THEN down ELSE down + 10

\* round(x, 1)
PyRound1(x) ==
    CASE x.t = "num"  -> Ok(IF x.sp = "fin" THEN Num(Round1(x.n)) ELSE x)
      [] x.t = "bool" -> Ok(Num(IF x.b THEN 100 ELSE 0))
      [] OTHER -> Raise("TypeError")

\* wd.get(k1, {}).get(k2, default)
Get2(wd, k1, k2, default) ==
    LET a == PyGet(wd, k1, EmptyDict)
    IN  IF a.exc # "none" THEN a ELSE PyGet(a.val, k2, default)

\* line 56
ParseTemperature(wd) ==
    LET g == Get2(wd, K_main, K_temp, Num(0))
    IN  IF g.exc # "none" THEN g ELSE PyRound1(g.val)

\* line 61: wd.get("weather", [{}])[0].get("description", "unknown")
ParseDescription(wd) ==
    LET w == PyGet(wd, K_weather, PyList(<<EmptyDict>>))
    IN  IF w.exc # "none" THEN w
        ELSE LET i == PyIndex0(w.val)
             IN  IF i.exc # "none" THEN i
                 ELSE PyGet(i.val, K_description, PyStr(UNKNOWN))

\* the six values of the dict display, in evaluation order (lines 56-61)
ParseFields(wd) ==
    << ParseTemperature(wd),
       Get2(wd, K_main, K_humidity, Num(0)),
       Get2(wd, K_wind, K_speed, Num(0)),
       Get2(wd, K_main, K_pressure, Num(0)),
       Get2(wd, K_clouds, K_all, Num(0)),
       ParseDescription(wd) >>

\* the first exception raised while the dict display is evaluated
FirstExc(fields) ==
    IF \E i \in DOMAIN fields : fields[i].exc # "none"
    THEN fields[CHOOSE i \in DOMAIN fields :
                   /\ fields[i].exc # "none"
                   /\ \A j \in 1..(i - 1) : fields[j].exc = "none"].exc
    ELSE "none"

\* line 63: the except clause catches KeyError and IndexError
ParseHandler(exc) == exc \in {"KeyError", "IndexError"}

\* parse_weather_data(weather_data): the snapshot, None, or the exception
\* that escapes
parse_weather_data(wd) ==
    IF ~Truthy(wd) THEN Ok(PyNone)
    ELSE LET f == ParseFields(wd)
             e == FirstExc(f)
         IN  IF e = "none"
             THEN Ok([temperature |-> f[1].val, humidity |-> f[2].val,
                      wind_speed |-> f[3].val, pressure |-> f[4].val,
                      cloud_coverage |-> f[5].val, description |-> f[6].val])
             ELSE IF ParseHandler(e) THEN Ok(PyNone)
             ELSE Raise(e)

(* ------------------------------------------------------------------ *)
(* generate_prediction_key, lines 67-79                                *)
(* ------------------------------------------------------------------ *)

HexDigits == <<"0", "1", "2", "3", "4", "5", "6", "7",
               "8", "9", "a", "b", "c", "d", "e", "f">>

HexChars == {HexDigits[i] : i \in DOMAIN HexDigits}

HexDigitVal(c) == (CHOOSE i \in DOMAIN HexDigits : HexDigits[i] = c) - 1

\* the two lowercase hex characters hexdigest() renders a byte with
HexByte(b) == <<HexDigits[(b \div 16) + 1], HexDigits[(b % 16) + 1]>>

\* generate_prediction_key(weather_params). SHA-256 is not computed: byte is
\* the first byte of the digest of key_string, and hash_key holds the first
\* two of the 64 characters of hexdigest(), the only ones read (line 87).
generate_prediction_key(wp, byte) ==
    IF wp = PyNone THEN PyNone ELSE PyStr(HexByte(byte))

(* ------------------------------------------------------------------ *)
(* DISASTER_MAPPING and get_disaster_prediction, lines 26-35, 81-95    *)
(* ------------------------------------------------------------------ *)

\* confidence_score is in hundredths (87 is 0.87)
Prediction(type, score, risk, rec) ==
    [type |-> type, confidence_score |-> score, risk_level |-> risk,
     recommendations |-> rec]

\* range(lo, hi) -> prediction, in insertion order
DISASTER_MAPPING ==
    << [lo |-> 0, hi |-> 32, prediction |->
          Prediction("Flood", 87, "High", "Evacuate low areas immediately. Secure valuables on higher ground.")],
       [lo |-> 32, hi |-> 64, prediction |->
          Prediction("Storm", 75, "Medium", "Stay indoors and away from windows. Secure loose outdoor items.")],
       [lo |-> 64, hi |-> 96, prediction |->
          Prediction("Drought", 65, "Medium", "Conserve water. Implement water-saving measures. Monitor local advisories.")],
       [lo |-> 96, hi |-> 128, prediction |->
          Prediction("Earthquake", 45, "Low", "Monitor seismic activity reports. Ensure emergency kits are prepared.")],
       [lo |-> 128, hi |-> 160, prediction |->
          Prediction("Wildfire", 72, "Medium", "Clear dry vegetation around property. Stay updated on evacuation notices.")],
       [lo |-> 160, hi |-> 192, prediction |->
          Prediction("Tornado", 60, "Medium", "Identify safe shelter locations. Keep emergency radio accessible.")],
       [lo |-> 192, hi |-> 224, prediction |->
          Prediction("Heatwave", 80, "High", "Stay hydrated. Limit outdoor activities. Check on vulnerable individuals.")],
       [lo |-> 224, hi |-> 256, prediction |->
          Prediction("None", 1, "Low", "No immediate action required. Continue normal activities.")] >>

\* line 84
ErrorPrediction ==
    Prediction("Error", 0, "Unknown", "Insufficient data for prediction.")

\* line 95
FallbackPrediction ==
    Prediction("None", 1, "Low", "No immediate action required.")

RECURSIVE HexVal(_)
\* int(s, 16) for a sequence of lowercase hex digits
HexVal(s) ==
    IF s = <<>> THEN 0
    ELSE 16 * HexVal(SubSeq(s, 1, Len(s) - 1)) + HexDigitVal(s[Len(s)])

\* Prefix2 that reads one character: hash_key[:1]
Prefix1(s) == SubSeq(s, 1, IF Len(s) < 1 THEN Len(s) ELSE 1)

\* hash_key[:2]
Prefix2(s) == SubSeq(s, 1, IF Len(s) < 2 THEN Len(s) ELSE 2)

\* InRange with the lower bound left out: lo < v < hi
InRangeExclusiveLo(v, r) == r.lo < v /\ v < r.hi

\* v in range(lo, hi)
InRange(v, r) == r.lo <= v /\ v < r.hi

\* lines 90-95: the first range of the table that holds v, else the fallback
Lookup(v) ==
    IF \E i \in DOMAIN DISASTER_MAPPING : InRange(v, DISASTER_MAPPING[i])
    THEN DISASTER_MAPPING[CHOOSE i \in DOMAIN DISASTER_MAPPING :
            /\ InRange(v, DISASTER_MAPPING[i])
            /\ \A j \in 1..(i - 1) : ~InRange(v, DISASTER_MAPPING[j])].prediction
    ELSE FallbackPrediction

\* get_disaster_prediction(hash_key); hash_key is None or a str of hex digits
get_disaster_prediction(key) ==
    IF ~Truthy(key) THEN ErrorPrediction
    ELSE Lookup(HexVal(Prefix2(key.s)))


(* ------------------------------------------------------------------ *)
(* Inputs: request bodies, provider answers, digests                   *)
(* ------------------------------------------------------------------ *)

\* values sent as latitude (numbers in hundredths of a degree)
LatValues ==
    { Num(-9001), Num(-9000), Num(9000), Num(9001), Num(20000),
      PyStr(<<"a", "b", "c">>), PyStr(<<>>), PyStr(<<"9", "0">>),
      PyStr(<<"9", "0", ".", "0", "1">>), PyStr(<<"n", "a", "n">>),
      PyNone, PyList(<<>>), EmptyDict }

\* values sent as longitude
LonValues ==
    { Num(-18001), Num(-18000), Num(18000), Num(18001),
      PyStr(<<"x">>), PyStr(<<"-", "i", "n", "f">>), PyBool(TRUE),
      PyNone, PyList(<<Num(100)>>) }

\* what request.get_json() returns: any JSON value
Bodies ==
    { PyNone, Num(0), Num(500), PyBool(FALSE), PyBool(TRUE),
      PyStr(<<>>), PyStr(<<"a", "b", "c">>), PyStr(LATITUDE),
      PyStr(LATITUDE \o <<" ">> \o LONGITUDE),
      PyList(<<>>), PyList(<<PyStr(LATITUDE)>>),
      PyList(<<PyStr(LATITUDE), PyStr(LONGITUDE)>>),
      EmptyDict }
    \cup { PyDict(LATITUDE :> a) : a \in LatValues }
    \cup { PyDict(LONGITUDE :> b) : b \in LonValues }
    \cup { PyDict(LATITUDE :> a @@ LONGITUDE :> b) : a \in LatValues, b \in LonValues }

Absent == [t |-> "absent"]

\* the dict of the pairs <<key, value>> whose value is not Absent
DictOf(pairs) ==
    LET present == {p \in pairs : p[2] # Absent}
    IN  IF present = {} THEN EmptyDict
        ELSE PyDict([k \in {p[1] : p \in present} |->
                        (CHOOSE p \in present : p[1] = k)[2]])

Payload(main, wind, clouds, weather) ==
    DictOf({<<K_main, main>>, <<K_wind, wind>>, <<K_clouds, clouds>>,
            <<K_weather, weather>>})

Main(temp, humidity, pressure) ==
    DictOf({<<K_temp, temp>>, <<K_humidity, humidity>>, <<K_pressure, pressure>>})

GoodMain == Main(Num(2346), Num(6000), Num(101200))

GoodWind == DictOf({<<K_speed, Num(320)>>})

GoodClouds == DictOf({<<K_all, Num(4000)>>})

GoodWeather == PyList(<<DictOf({<<K_description, PyStr(<<"f", "o", "g">>)>>})>>)

MainVariants ==
    { Absent, EmptyDict, GoodMain,
      Main(Num(2325), Absent, Absent), Main(Absent, Num(6000), Absent),
      Main(Num(-514), Num(6000), Absent),
      Main(PyStr(<<"h", "o", "t">>), Num(6000), Num(101200)),
      Main(PyNone, Num(6000), Num(101200)),
      Main(PyBool(TRUE), Absent, Num(101200)),
      PyNone, PyStr(<<"x">>), PyList(<<>>), Num(500) }

WindVariants == { Absent, EmptyDict, GoodWind, PyNone, PyList(<<GoodWind>>) }

CloudsVariants == { Absent, EmptyDict, GoodClouds, PyStr(<<>>), Num(4000) }

WeatherVariants ==
    { Absent, GoodWeather, PyList(<<EmptyDict>>), PyList(<<>>),
      PyList(<<Num(500)>>), PyList(<<PyNone>>), EmptyDict,
      DictOf({<<K_description, PyStr(<<"f", "o", "g">>)>>}),
      PyStr(<<>>), PyStr(<<"f", "o", "g">>), PyNone, Num(0) }

\* JSON values the provider may send with a response
Payloads ==
    { Payload(m, GoodWind, GoodClouds, GoodWeather) : m \in MainVariants }
    \cup { Payload(GoodMain, w, GoodClouds, GoodWeather) : w \in WindVariants }
    \cup { Payload(GoodMain, GoodWind, c, GoodWeather) : c \in CloudsVariants }
    \cup { Payload(GoodMain, GoodWind, GoodClouds, w) : w \in WeatherVariants }
    \cup { Payload(Absent, Absent, Absent, Absent),
           Payload(EmptyDict, EmptyDict, EmptyDict, PyList(<<EmptyDict>>)),
           Payload(GoodMain, Absent, Absent, Absent),
           Payload(Absent, Absent, Absent, GoodWeather),
           PyNone, PyList(<<>>), PyList(<<GoodMain>>), PyStr(<<"o", "k">>),
           Num(0), Num(500), PyBool(TRUE) }

HTTP_OK == 200

Answer(kind, status, isJson, body) ==
    [kind |-> kind, status |-> status, isJson |-> isJson, body |-> body]

NoAnswer == Answer("none", 0, FALSE, PyNone)

\* what the provider, or the network, answers to the GET of line 42
Answers ==
    { Answer(k, 0, FALSE, PyNone) : k \in TransportErrors }
    \cup { Answer("response", st, TRUE, Payload(GoodMain, GoodWind, GoodClouds, GoodWeather)) :
             st \in {300, 401, 404, 500, 503} }
    \cup { Answer("response", st, FALSE, PyNone) : st \in {HTTP_OK, 204, 502} }
    \cup { Answer("response", HTTP_OK, TRUE, p) : p \in Payloads }

MaxKeyLen == 3

\* keys handed to get_disaster_prediction on its own: None, the empty str and
\* the strs of up to MaxKeyLen hex digits
KeyInputs ==
    {PyNone} \cup
    { PyStr(s) : s \in UNION { [1..n -> HexChars] : n \in 0..MaxKeyLen } }

(* ------------------------------------------------------------------ *)
(* predict_disaster, lines 97-143, one action per stage                *)
(* ------------------------------------------------------------------ *)

Init ==
    /\ pc = "ReceiveRequest"
    /\ data = PyNone
    /\ latitude = PyNone
    /\ longitude = PyNone
    /\ weather_data = PyNone
    /\ weather_params = PyNone
    /\ hash_key = PyNone
    /\ disaster_prediction = PyNone
    /\ response = NoResponse
    /\ answer = NoAnswer
    /\ calls = <<>>

\* line 102: a new request arrives; its locals are fresh
ReceiveRequest ==
    /\ pc \in {"ReceiveRequest", "Done"}
    /\ \E b \in Bodies : data' = b
    /\ pc' = "ValidateInput"
    /\ latitude' = PyNone
    /\ longitude' = PyNone
    /\ weather_data' = PyNone
    /\ weather_params' = PyNone
    /\ hash_key' = PyNone
    /\ disaster_prediction' = PyNone
    /\ response' = NoResponse
    /\ answer' = NoAnswer
    /\ calls' = <<"get_json">>

\* lines 105-116 for the body d: the response that ends the request, or the
\* two floats the handler goes on with
Validate(d) ==
    LET m == MissingParams(d)
        c == ParseCoordinates(d)
        stop(r) == [next |-> "Done", response |-> r, lat |-> PyNone, lon |-> PyNone]
    IN  CASE m.exc # "none" -> stop(UnhandledResponse(m.exc))
          [] m.exc = "none" /\ m.val.b -> stop(ErrorResponse(400, MSG_MISSING))
          [] OTHER ->
              CASE c.exc # "none" /\ CoordinateHandler(c.exc) ->
                       stop(ErrorResponse(400, MSG_FORMAT))
                [] c.exc # "none" /\ ~CoordinateHandler(c.exc) ->
                       stop(UnhandledResponse(c.exc))
                [] OTHER ->
                       IF OutOfRange(c.lat, c.lon)
                       THEN [next |-> "Done", response |-> ErrorResponse(400, MSG_RANGE),
                             lat |-> c.lat, lon |-> c.lon]
                       ELSE [next |-> "FetchWeather", response |-> NoResponse,
                             lat |-> c.lat, lon |-> c.lon]

\* "jsonify" is added to the calls when the handler built the response itself
Called(cs, name, r) ==
    IF "error" \in DOMAIN r.body THEN cs \o <<name, "jsonify">> ELSE cs \o <<name>>

ValidateInput ==
    /\ pc = "ValidateInput"
    /\ LET v == Validate(data)
       IN  /\ pc' = v.next
           /\ response' = v.response
           /\ latitude' = v.lat
           /\ longitude' = v.lon
           /\ calls' = Called(calls, "validate", v.response)
    /\ UNCHANGED <<data, weather_data, weather_params, hash_key,
                   disaster_prediction, answer>>

\* lines 119-121 for the result w of get_weather_data
AfterFetch(w) ==
    CASE w.exc # "none" -> [next |-> "Done", response |-> UnhandledResponse(w.exc)]
      [] w.exc = "none" /\ ~Truthy(w.val) ->
             [next |-> "Done", response |-> ErrorResponse(503, MSG_FETCH)]
      [] OTHER -> [next |-> "NormalizeWeather", response |-> NoResponse]

FetchWeather ==
    /\ pc = "FetchWeather"
    /\ \E o \in Answers, newRequests \in BOOLEAN :
         LET w == get_weather_data(o, newRequests)
             a == AfterFetch(w)
         IN  /\ answer' = o
             /\ weather_data' = w.val
             /\ pc' = a.next
             /\ response' = a.response
             /\ calls' = Called(calls, "get_weather_data", a.response)
    /\ UNCHANGED <<data, latitude, longitude, weather_params, hash_key,
                   disaster_prediction>>

\* lines 124-126 for the result p of parse_weather_data
AfterParse(p) ==
    CASE p.exc # "none" -> [next |-> "Done", response |-> UnhandledResponse(p.exc)]
      [] p.exc = "none" /\ p.val = PyNone ->
             [next |-> "Done", response |-> ErrorResponse(500, MSG_PROCESS)]
      [] OTHER -> [next |-> "DeriveKey", response |-> NoResponse]

NormalizeWeather ==
    /\ pc = "NormalizeWeather"
    /\ LET p == parse_weather_data(weather_data)
           a == AfterParse(p)
       IN  /\ weather_params' = p.val
           /\ pc' = a.next
           /\ response' = a.response
           /\ calls' = Called(calls, "parse_weather_data", a.response)
    /\ UNCHANGED <<data, latitude, longitude, weather_data, hash_key,
                   disaster_prediction, answer>>

\* line 129
DeriveKey ==
    /\ pc = "DeriveKey"
    /\ \E byte \in 0..255 : hash_key' = generate_prediction_key(weather_params, byte)
    /\ pc' = "Bucket"
    /\ calls' = calls \o <<"generate_prediction_key">>
    /\ UNCHANGED <<data, latitude, longitude, weather_data, weather_params,
                   disaster_prediction, response, answer>>

\* line 130
Bucket ==
    /\ pc = "Bucket"
    /\ disaster_prediction' = get_disaster_prediction(hash_key)
    /\ pc' = "RespondSuccess"
    /\ calls' = calls \o <<"get_disaster_prediction">>
    /\ UNCHANGED <<data, latitude, longitude, weather_data, weather_params,
                   hash_key, response, answer>>

\* lines 133-143
SuccessResponse(lat, lon, wp, dp) ==
    [status |-> HTTP_OK,
     body |-> [location |-> [latitude |-> lat, longitude |-> lon],
               weather_snapshot |-> wp,
               disaster_prediction |-> dp,
               disclaimer |-> DISCLAIMER]]

RespondSuccess ==
    /\ pc = "RespondSuccess"
    /\ response' = SuccessResponse(latitude, longitude, weather_params,
                                   disaster_prediction)
    /\ pc' = "Done"
    /\ calls' = calls \o <<"jsonify">>
    /\ UNCHANGED <<data, latitude, longitude, weather_data, weather_params,
                   hash_key, disaster_prediction, answer>>

Next ==
    \/ ReceiveRequest
    \/ ValidateInput
    \/ FetchWeather
    \/ NormalizeWeather
    \/ DeriveKey
    \/ Bucket
    \/ RespondSuccess

Spec == Init /\ [][Next]_vars

(* get_disaster_prediction on its own, applied to every key of KeyInputs *)

InitBucket ==
    /\ pc = "Bucket"
    /\ data = PyNone
    /\ latitude = PyNone
    /\ longitude = PyNone
    /\ weather_data = PyNone
    /\ weather_params = PyNone
    /\ hash_key \in KeyInputs
    /\ disaster_prediction = PyNone
    /\ response = NoResponse
    /\ answer = NoAnswer
    /\ calls = <<>>

NextBucket == Bucket

SpecBucket == InitBucket /\ [][NextBucket]_vars


(* ------------------------------------------------------------------ *)
(* Properties                                                          *)
(* ------------------------------------------------------------------ *)

InCalls(name) == \E i \in DOMAIN calls : calls[i] = name

HasBothKeys(d) ==
    /\ d.t = "dict"
    /\ LATITUDE \in DOMAIN d.d
    /\ LONGITUDE \in DOMAIN d.d

\* a JSON value that is no number: null, a list, an object, or a string that
\* does not read as a number
NotNumeric(v) ==
    \/ v.t \in {"None", "list", "dict"}
    \/ v.t = "str" /\ ParseFloat(v.s).exc # "none"

IsErrorResponse(r) == DOMAIN r.body = {"error"}

IsCompleteSuccess(r) ==
    /\ r.status = 200
    /\ DOMAIN r.body = {"location", "weather_snapshot", "disaster_prediction", "disclaimer"}
    /\ DOMAIN r.body.location = {"latitude", "longitude"}
    /\ DOMAIN r.body.weather_snapshot =
          {"temperature", "humidity", "wind_speed", "pressure", "cloud_coverage",
           "description"}
    /\ DOMAIN r.body.disaster_prediction =
          {"type", "confidence_score", "risk_level", "recommendations"}
    /\ r.body.disclaimer = DISCLAIMER

\* C1: a finished request whose body carries both keys and has a latitude or
\* longitude value that is no number was answered 400 with the
\* invalid-format message, and no weather fetch was made.
C1_InvalidFormat400 ==
    (/\ pc = "Done"
     /\ HasBothKeys(data)
     /\ NotNumeric(data.d[LATITUDE]) \/ NotNumeric(data.d[LONGITUDE]))
    => /\ response = ErrorResponse(400, MSG_FORMAT)
       /\ ~InCalls("get_weather_data")

IsObject(v) == v.t = "dict"

IsNumber(v) == v.t = "num"

PartMalformed(wd, k) == k \in DOMAIN wd.d /\ ~IsObject(wd.d[k])

\* a fetched payload of the wrong shape: main, wind or clouds is no object,
\* weather is no non-empty list of objects, or main.temp is no number
Malformed(wd) ==
    /\ wd.t = "dict"
    /\ \/ PartMalformed(wd, K_main)
       \/ PartMalformed(wd, K_wind)
       \/ PartMalformed(wd, K_clouds)
       \/ /\ K_weather \in DOMAIN wd.d
          /\ LET w == wd.d[K_weather]
             IN  ~(/\ w.t = "list"
                   /\ w.items # <<>>
                   /\ \A i \in DOMAIN w.items : IsObject(w.items[i]))
       \/ /\ K_main \in DOMAIN wd.d
          /\ IsObject(wd.d[K_main])
          /\ K_temp \in DOMAIN wd.d[K_main].d
          /\ ~IsNumber(wd.d[K_main].d[K_temp])

\* C2: a finished request whose fetched payload is malformed was answered
\* 500 with the failed-to-process message, parse_weather_data having
\* returned no snapshot.
C2_Malformed500 ==
    (/\ pc = "Done"
     /\ answer.kind = "response" /\ answer.status = HTTP_OK /\ answer.isJson
     /\ Malformed(answer.body))
    => /\ weather_params = PyNone
       /\ response = ErrorResponse(500, MSG_PROCESS)

\* the value of wd[k1][k2], or Absent
Field(wd, k1, k2) ==
    IF k1 \in DOMAIN wd.d /\ k2 \in DOMAIN wd.d[k1].d THEN wd.d[k1].d[k2]
    ELSE Absent

\* the value of wd["weather"][0]["description"], or Absent
DescriptionField(wd) ==
    IF K_weather \in DOMAIN wd.d /\ K_description \in DOMAIN wd.d[K_weather].items[1].d
    THEN wd.d[K_weather].items[1].d[K_description]
    ELSE Absent

\* a payload of the expected shape with at least one optional field absent
OptionalFieldAbsent(wd) ==
    /\ wd.t = "dict"
    /\ ~Malformed(wd)
    /\ \/ Absent \in {Field(wd, K_main, K_temp), Field(wd, K_main, K_humidity),
                      Field(wd, K_main, K_pressure), Field(wd, K_wind, K_speed),
                      Field(wd, K_clouds, K_all)}
       \/ DescriptionField(wd) = Absent

\* the snapshot value of a numeric field: 0 when the field is absent
Defaulted(got, field) == field = Absent => got = Num(0)

\* C3: a finished request whose fetched payload has optional fields absent
\* was answered 200 with a snapshot that holds 0 for each absent numeric
\* field and "unknown" for an absent description.
C3_AbsentFieldsDefault ==
    (/\ pc = "Done"
     /\ answer.kind = "response" /\ answer.status = HTTP_OK /\ answer.isJson
     /\ OptionalFieldAbsent(answer.body))
    => /\ IsCompleteSuccess(response)
       /\ LET snap == response.body.weather_snapshot
              wd == answer.body
          IN  /\ Defaulted(snap.temperature, Field(wd, K_main, K_temp))
              /\ Defaulted(snap.humidity, Field(wd, K_main, K_humidity))
              /\ Defaulted(snap.pressure, Field(wd, K_main, K_pressure))
              /\ Defaulted(snap.wind_speed, Field(wd, K_wind, K_speed))
              /\ Defaulted(snap.cloud_coverage, Field(wd, K_clouds, K_all))
              /\ DescriptionField(wd) = Absent => snap.description = PyStr(UNKNOWN)

\* C4: a finished request whose body is missing or does not carry both keys
\* was answered 400 with the missing-parameters message.
C4_MissingParams400 ==
    (pc = "Done" /\ ~HasBothKeys(data))
    => response = ErrorResponse(400, MSG_MISSING)

\* C5: a finished request has one response, which is the complete success
\* body with status 200 or a single error object with status 400, 503 or 500.
C5_CompleteOrError ==
    pc = "Done"
    => /\ Cardinality({i \in DOMAIN calls : calls[i] = "jsonify"}) = 1
       /\ \/ IsCompleteSuccess(response)
          \/ IsErrorResponse(response) /\ response.status \in {400, 503, 500}

LaterStages == {"parse_weather_data", "generate_prediction_key", "get_disaster_prediction"}

FetchFailed503 ==
    /\ response = ErrorResponse(503, MSG_FETCH)
    /\ \A i \in DOMAIN calls : calls[i] \notin LaterStages

BothParse(d) ==
    /\ HasBothKeys(d)
    /\ PyFloat(d.d[LATITUDE]).exc = "none"
    /\ PyFloat(d.d[LONGITUDE]).exc = "none"

\* x, in hundredths of a degree, lies outside [lo, hi] degrees
Outside(x, lo, hi) == x.sp # "fin" \/ x.n < 100 * lo \/ x.n > 100 * hi

\* C7: once the coordinates of a request have both parsed, the request is
\* answered 400 with the out-of-range message exactly when the latitude is
\* outside [-90, 90] or the longitude outside [-180, 180]; otherwise, the
\* bounds included, it goes on to the weather fetch.
C7_RangeCheck ==
    (InCalls("validate") /\ BothParse(data))
    => LET lat == PyFloat(data.d[LATITUDE]).val
           lon == PyFloat(data.d[LONGITUDE]).val
       IN  IF Outside(lat, -90, 90) \/ Outside(lon, -180, 180)
           THEN pc = "Done" /\ response = ErrorResponse(400, MSG_RANGE)
           ELSE /\ response # ErrorResponse(400, MSG_RANGE)
                /\ pc = "FetchWeather" \/ InCalls("get_weather_data")

C7_Witness ==
    /\ pc = "FetchWeather"
    /\ data.d[LATITUDE] = Num(9000)
    /\ data.d[LONGITUDE] = Num(-18000)
    /\ latitude = Num(9000)
    /\ longitude = Num(-18000)

TableRecords == {DISASTER_MAPPING[i].prediction : i \in DOMAIN DISASTER_MAPPING}

\* C8: every v of 0..255 lies in exactly one range of DISASTER_MAPPING, and a
\* key that starts with two hex digits gets a record of the table, never the
\* fallback record.
C8_Partition ==
    /\ \A v \in 0..255 :
         Cardinality({i \in DOMAIN DISASTER_MAPPING :
                        DISASTER_MAPPING[i].lo <= v /\ v < DISASTER_MAPPING[i].hi}) = 1
    /\ (/\ pc = "RespondSuccess"
        /\ hash_key.t = "str"
        /\ Len(hash_key.s) >= 2)
       => /\ disaster_prediction \in TableRecords
          /\ disaster_prediction # FallbackPrediction

C8_Witness ==
    /\ pc = "RespondSuccess"
    /\ hash_key = PyStr(<<"f", "f", "0">>)
    /\ disaster_prediction = DISASTER_MAPPING[8].prediction

\* the integer the first two characters of a digest spell (the first one, for
\* a digest of one character)
FirstByte(s) ==
    IF Len(s) = 1 THEN HexDigitVal(s[1])
    ELSE 16 * HexDigitVal(s[1]) + HexDigitVal(s[2])

\* type, confidence score (hundredths) and risk level for the byte v
Expected(v) ==
    CASE v \in 0..31    -> <<"Flood", 87, "High">>
      [] v \in 32..63   -> <<"Storm", 75, "Medium">>
      [] v \in 64..95   -> <<"Drought", 65, "Medium">>
      [] v \in 96..127  -> <<"Earthquake", 45, "Low">>
      [] v \in 128..159 -> <<"Wildfire", 72, "Medium">>
      [] v \in 160..191 -> <<"Tornado", 60, "Medium">>
      [] v \in 192..223 -> <<"Heatwave", 80, "High">>
      [] v \in 224..255 -> <<"None", 1, "Low">>

\* C9: get_disaster_prediction gives a non-empty digest the record of the
\* range that holds the integer of its first two hex characters (Wildfire for
\* 0x96), and gives an empty or absent digest the Error record.
C9_BucketOfFirstByte ==
    pc = "RespondSuccess"
    => IF hash_key = PyNone \/ hash_key = PyStr(<<>>)
       THEN /\ disaster_prediction.type = "Error"
            /\ disaster_prediction.confidence_score = 0
            /\ disaster_prediction.risk_level = "Unknown"
       ELSE /\ <<disaster_prediction.type, disaster_prediction.confidence_score,
                 disaster_prediction.risk_level>> = Expected(FirstByte(hash_key.s))
            /\ (Len(hash_key.s) >= 2 /\ hash_key.s[1] = "9" /\ hash_key.s[2] = "6")
               => disaster_prediction.type = "Wildfire"

C9_Witness ==
    /\ pc = "RespondSuccess"
    /\ hash_key = PyStr(<<"9", "6", "a">>)
    /\ disaster_prediction.type = "Wildfire"

StageOrder ==
    <<"get_json", "validate", "get_weather_data", "parse_weather_data",
      "generate_prediction_key", "get_disaster_prediction">>

IsPrefix(a, b) == Len(a) <= Len(b) /\ SubSeq(b, 1, Len(a)) = a

\* the stages of calls, the closing "jsonify" left out
Stages(cs) ==
    IF cs # <<>> /\ cs[Len(cs)] = "jsonify" THEN SubSeq(cs, 1, Len(cs) - 1) ELSE cs

InRangeCoordinates(d) ==
    /\ BothParse(d)
    /\ ~Outside(PyFloat(d.d[LATITUDE]).val, -90, 90)
    /\ ~Outside(PyFloat(d.d[LONGITUDE]).val, -180, 180)

C10_Order ==
    /\ IsPrefix(Stages(calls), StageOrder)
    /\ Cardinality({i \in DOMAIN calls : calls[i] = "get_weather_data"}) <= 1
    /\ InCalls("get_weather_data") => InRangeCoordinates(data)
    /\ response.status = 400 => ~InCalls("get_weather_data")
    /\ response # NoResponse => pc = "Done"

\* a step either starts a new request or, for a request that has no response
\* yet, runs its one next stage, or responds, or both
C10_Step ==
    \/ calls' = <<"get_json">>
    \/ /\ response = NoResponse
       /\ IsPrefix(calls, calls')
       /\ Len(calls') > Len(calls)
       /\ Len(Stages(calls')) <= Len(Stages(calls)) + 1

\* C10: the stages of a request run in the fixed order validate, fetch,
\* normalize, derive key, bucket, respond; the weather fetch is issued at most
\* once, only for coordinates that passed the three checks, and never for a
\* request answered 400; once a request has its response no stage runs again.
C10_StagesInOrder == []C10_Order /\ [][C10_Step]_vars

C10_Witness ==
    /\ pc = "Done"
    /\ response.status = 200
    /\ calls = StageOrder \o <<"jsonify">>


====
